---- MODULE Spec2Model ----
(***************************************************************************)
(* Model of src/tele.py: the click-statistics bot.                         *)
(*                                                                         *)
(* Text is modelled as a sequence of one-character strings, so that        *)
(* lower-casing, stripping, prefix removal, substring search, URL          *)
(* authority extraction and digit extraction are computed character by     *)
(* character as the Python code computes them.                             *)
(***************************************************************************)
EXTENDS Integers, Sequences, FiniteSets

VARIABLES pc, sources, idx, all_sites, visited, outcome, sites,
          needle, site, args, target_date, fetches, records, summary, reply

vars == <<pc, sources, idx, all_sites, visited, outcome, sites,
          needle, site, args, target_date, fetches, records, summary, reply>>

(***************************************************************************)
(* Bounds of the model.                                                    *)
(***************************************************************************)
\* data rows of a fetched catalog table
MaxRows == 2
\* body rows of a fetched daily-log table
MaxRecs == 2
\* length of the Site list handed to pick_site
MaxSites == 3
\* rows of the log page whose records are handed to summarize_for_date
MaxSumRows == 3

\* Python None
Null == [none |-> TRUE]
\* no reply has been sent yet
NoReply == ""

(***************************************************************************)
(* Python str primitives.                                                  *)
(***************************************************************************)
Digits == {"0", "1", "2", "3", "4", "5", "6", "7", "8", "9"}

DigitVal(c) ==
    CASE c = "0" -> 0 [] c = "1" -> 1 [] c = "2" -> 2 [] c = "3" -> 3
      [] c = "4" -> 4 [] c = "5" -> 5 [] c = "6" -> 6 [] c = "7" -> 7
      [] c = "8" -> 8 [] c = "9" -> 9

LowerLetters == {"a", "b", "c", "h", "k", "n", "o", "t", "v", "w", "x", "z"}
UpperLetters == {"A", "B", "N", "T", "W"}
Letters == LowerLetters \cup UpperLetters

\* str.lower(), one character
lower_char(c) ==
    CASE c = "A" -> "a" [] c = "B" -> "b" [] c = "N" -> "n"
      [] c = "T" -> "t" [] c = "W" -> "w" [] OTHER -> c

\* str.lower()
lower(s) == [k \in 1..Len(s) |-> lower_char(s[k])]

\* str.startswith(p)
startswith(s, p) == Len(s) >= Len(p) /\ SubSeq(s, 1, Len(p)) = p

\* the Python test "sub in s"
contains(s, sub) ==
    \E k \in 0..(Len(s) - Len(sub)) : SubSeq(s, k + 1, k + Len(sub)) = sub

RECURSIVE lstrip(_)
lstrip(s) == IF s # <<>> /\ Head(s) = " " THEN lstrip(Tail(s)) ELSE s

RECURSIVE rstrip(_)
rstrip(s) ==
    IF s # <<>> /\ s[Len(s)] = " " THEN rstrip(SubSeq(s, 1, Len(s) - 1)) ELSE s

\* str.strip()
strip(s) == rstrip(lstrip(s))

\* index of the first occurrence of one of the characters cs at or after
\* position from, or Len(s) + 1 when there is none
FirstOf(s, cs, from) ==
    IF \E k \in from..Len(s) : s[k] \in cs
    THEN CHOOSE k \in from..Len(s) :
            s[k] \in cs /\ \A j \in from..(k - 1) : s[j] \notin cs
    ELSE Len(s) + 1

RECURSIVE split(_, _)
\* str.split(sep) for a one-character separator
split(s, sep) ==
    LET k == FirstOf(s, {sep}, 1)
    IN  IF k > Len(s) THEN <<s>>
        ELSE <<SubSeq(s, 1, k - 1)>> \o split(SubSeq(s, k + 1, Len(s)), sep)

RECURSIVE digits_value(_, _)
digits_value(s, acc) ==
    IF s = <<>> THEN acc
    ELSE digits_value(Tail(s),
                      IF Head(s) \in Digits THEN acc * 10 + DigitVal(Head(s))
                      ELSE acc)

\* int(re.sub(r"[^\d]", "", text) or 0)
to_int(text) == digits_value(text, 0)

AllDigits(s) == \A k \in 1..Len(s) : s[k] \in Digits

(***************************************************************************)
(* urllib.parse.urlparse(url).netloc                                       *)
(***************************************************************************)
SchemeChars == Letters \cup Digits \cup {"+", "-", "."}

\* the text left after a leading "scheme:" is removed, as urlsplit does
after_scheme(url) ==
    LET i == FirstOf(url, {":"}, 1)
    IN  IF /\ i > 1
           /\ i <= Len(url)
           /\ url[1] \in Letters
           /\ \A k \in 1..(i - 1) : url[k] \in SchemeChars
        THEN SubSeq(url, i + 1, Len(url))
        ELSE url

netloc_of(url) ==
    LET rest == after_scheme(url)
    IN  IF startswith(rest, <<"/", "/">>)
        THEN SubSeq(rest, 3, FirstOf(rest, {"/", "?", "#"}, 3) - 1)
        ELSE <<>>

hostname_of(url_or_domain) ==
    LET parsed == netloc_of(url_or_domain)
        netloc == IF parsed # <<>> THEN parsed ELSE url_or_domain
        host   == lower(netloc)
    IN  IF startswith(host, <<"w", "w", "w", ".">>)
        THEN SubSeq(host, 5, Len(host))
        ELSE host

(***************************************************************************)
(* Remote pages.  A fetched page is what BeautifulSoup finds in it: whether *)
(* the table is there, and the cells of its rows.  fetch_html either       *)
(* raises (ok = FALSE) or returns a page.                                  *)
(***************************************************************************)
Str_a    == <<"a">>
Str_wwwa == <<"w", "w", "w", ".", "a">>
Str_A    == <<"A">>
Str_b    == <<"b">>
Str_t    == <<"t">>
Str_n    == <<"n">>

U_k == <<"h", ":", "/", "/", "k", "/", "a">>
U_x == <<"h", ":", "/", "/", "x", "/", "a">>
U_t == <<"h", ":", "/", "/", "t", "/", "v">>
U_a == <<"h", ":", "/", "/", "W", "W", "W", ".", "a", "/", "v">>

FailedFetch == [ok |-> FALSE, table |-> FALSE, rows |-> <<>>]

\* a <tr> of a catalog table: the number of its <td> cells, the text of
\* cells 0..3 and the href of the link in cell 5
CatalogRow(n, nm, dom, tot, view) ==
    [ncells |-> n, name |-> nm, domain |-> dom, type |-> "main",
     total |-> tot, view |-> view]

HeaderRow == CatalogRow(0, <<>>, <<>>, <<>>, <<>>)

CatalogRowPool ==
    { CatalogRow(9, Str_n, Str_a, <<"0">>, U_a),
      CatalogRow(9, Str_n, Str_wwwa, <<"5">>, U_a),
      CatalogRow(9, Str_n, Str_A, <<"1", ",", "2">>, U_a),
      CatalogRow(9, Str_n, <<>>, <<"3">>, U_a),
      CatalogRow(9, Str_n, Str_b, <<"4">>, <<>>),
      CatalogRow(8, Str_n, Str_b, <<"6">>, U_a) }

SeqsUpTo(S, n) == UNION { [1..k -> S] : k \in 0..n }

CatalogPagesOf(n) ==
    { [ok |-> TRUE, table |-> FALSE, rows |-> <<>>],
      [ok |-> TRUE, table |-> TRUE, rows |-> <<>>] }
    \cup { [ok |-> TRUE, table |-> TRUE, rows |-> <<HeaderRow>> \o rs] :
             rs \in SeqsUpTo(CatalogRowPool, n) }

CatalogResponses == {FailedFetch} \cup CatalogPagesOf(MaxRows)

D_0913  == <<"2", "0", "2", "5", "-", "0", "9", "-", "1", "3">>
D_0914  == <<"2", "0", "2", "5", "-", "0", "9", "-", "1", "4">>
D_0230  == <<"2", "0", "2", "5", "-", "0", "2", "-", "3", "0">>
D_913   == <<"2", "0", "2", "5", "-", "9", "-", "1", "3">>
D_on    == <<"o", "n", " ">> \o D_0913
D_bad   == <<"1", "3", "/", "0", "9">>

\* a <tr> of a daily-log table body: the number of its <td> cells and the
\* text of cells 0..2
LogRow(n, btn, date, cnt) ==
    [ncells |-> n, btn |-> btn, date |-> date, count |-> cnt]

LogRowPool ==
    { LogRow(3, "click", D_0913, <<"5">>),
      LogRow(3, "view", D_0913, <<"3">>),
      LogRow(3, "click", D_0914, <<"9">>),
      LogRow(3, "click", D_on, <<"1", ",", "0">>),
      LogRow(3, "view", D_0230, <<"4">>),
      LogRow(3, "view", D_913, <<"7">>),
      LogRow(2, "click", D_0913, <<"8">>) }

LogPagesOf(n) ==
    { [ok |-> TRUE, table |-> FALSE, rows |-> <<>>] }
    \cup { [ok |-> TRUE, table |-> TRUE, rows |-> rs] :
             rs \in SeqsUpTo(LogRowPool, n) }

LogResponses == {FailedFetch} \cup LogPagesOf(MaxRecs)

(***************************************************************************)
(* parse_master_sites                                                      *)
(***************************************************************************)
Site(nm, dom, ty, tot, view, src) ==
    [name |-> nm, domain |-> dom, type |-> ty, total_clicks |-> tot,
     view_clicks_url |-> view, source |-> src]

\* variant: only the domain is tested
row_included_domain_only(domain, view_clicks_url) == domain # <<>>

\* the test "if domain and view_clicks_url"
row_included(domain, view_clicks_url) ==
    domain # <<>> /\ view_clicks_url # <<>>

RECURSIVE master_rows(_, _)
master_rows(rows, source_url) ==
    IF rows = <<>> THEN <<>>
    ELSE LET tr   == Head(rows)
             rest == master_rows(Tail(rows), source_url)
         IN  IF tr.ncells < 9 THEN rest
             ELSE IF row_included(tr.domain, tr.view)
                  THEN <<Site(tr.name, tr.domain, tr.type, to_int(tr.total),
                              tr.view, source_url)>> \o rest
                  ELSE rest

parse_master_sites(html, source_url) ==
    IF ~html.table THEN <<>>
    ELSE master_rows(IF html.rows = <<>> THEN <<>> ELSE Tail(html.rows),
                     source_url)

(***************************************************************************)
(* parse_daily_clicks_page                                                 *)
(***************************************************************************)
\* re.search(r"\d{4}-\d{2}-\d{2}", text): the first match, or <<>> for None
IsDatePattern(s) ==
    /\ Len(s) = 10
    /\ s[5] = "-" /\ s[8] = "-"
    /\ \A k \in {1, 2, 3, 4, 6, 7, 9, 10} : s[k] \in Digits

search_date(text) ==
    LET Hits == { k \in 1..(Len(text) - 9) :
                    IsDatePattern(SubSeq(text, k, k + 9)) }
    IN  IF Hits = {} THEN <<>>
        ELSE LET k == CHOOSE h \in Hits : \A g \in Hits : h <= g
             IN  SubSeq(text, k, k + 9)

IsLeap(y) == (y % 4 = 0 /\ y % 100 # 0) \/ y % 400 = 0

DaysIn(y, m) ==
    IF m = 2 THEN (IF IsLeap(y) THEN 29 ELSE 28)
    ELSE IF m \in {4, 6, 9, 11} THEN 30 ELSE 31

\* dt.datetime.strptime(s, "%Y-%m-%d") does not raise
strptime_ok(s) ==
    LET parts == split(s, "-")
    IN  /\ Len(parts) = 3
        /\ Len(parts[1]) = 4 /\ AllDigits(parts[1])
        /\ Len(parts[2]) \in {1, 2} /\ AllDigits(parts[2])
        /\ Len(parts[3]) \in {1, 2} /\ AllDigits(parts[3])
        /\ LET y == to_int(parts[1])
               m == to_int(parts[2])
               d == to_int(parts[3])
           IN  y >= 1 /\ m \in 1..12 /\ d >= 1 /\ d <= DaysIn(y, m)

RECURSIVE log_rows(_)
log_rows(rows) ==
    IF rows = <<>> THEN <<>>
    ELSE LET tr       == Head(rows)
             rest     == log_rows(Tail(rows))
             m        == search_date(tr.date)
             date_str == IF m # <<>> THEN m ELSE tr.date
         IN  IF tr.ncells < 3 THEN rest
             ELSE IF ~strptime_ok(date_str) THEN rest
             ELSE <<[button_type |-> tr.btn, date |-> date_str,
                     count |-> to_int(tr.count)]>> \o rest

parse_daily_clicks_page(html) ==
    IF ~html.table THEN <<>> ELSE log_rows(html.rows)

RECURSIVE sum_counts(_)
\* sum(r["count"] for r in recs)
sum_counts(recs) ==
    IF recs = <<>> THEN 0 ELSE Head(recs).count + sum_counts(Tail(recs))

(***************************************************************************)
(* Source configuration.  An absent or empty override is the empty text:   *)
(* entry.get("name") or ... treats both alike.                             *)
(***************************************************************************)
MasterEntry(url) ==
    [kind |-> "master", url |-> url, name |-> <<>>, domain |-> <<>>,
     type |-> ""]

ClicksEntry(url, nm, dom, ty) ==
    [kind |-> "clicks", url |-> url, name |-> nm, domain |-> dom, type |-> ty]

\* the configured list: two catalogs, then a single clicks page whose name
\* and domain overrides are the host of its URL
SOURCES ==
    << MasterEntry(U_k), MasterEntry(U_x),
       ClicksEntry(U_t, Str_t, Str_t, "single") >>

\* single-site entries with every combination of overrides
ClicksEntries ==
    { ClicksEntry(U_t, Str_t, Str_t, "single"),
      ClicksEntry(U_a, <<>>, <<>>, ""),
      ClicksEntry(U_t, <<>>, Str_A, ""),
      ClicksEntry(U_a, <<"N">>, <<>>, "") }

\* other source lists the same code can be configured with
Configs ==
    { SOURCES,
      << MasterEntry(U_k), ClicksEntry(U_t, <<>>, Str_A, ""), MasterEntry(U_x) >>,
      << ClicksEntry(U_a, <<>>, <<>>, ""), MasterEntry(U_k) >>,
      << [kind |-> "feed", url |-> U_x, name |-> <<>>, domain |-> <<>>,
          type |-> ""],
         MasterEntry(U_k) >> }

(***************************************************************************)
(* build_single_clicks_site                                                *)
(***************************************************************************)
\* variant: the total counts the records instead of adding their counts
build_single_clicks_site_counts_rows(entry, html) ==
    LET name   == IF entry.name # <<>> THEN entry.name
                  ELSE IF entry.domain # <<>> THEN entry.domain
                  ELSE hostname_of(entry.url)
        domain == IF entry.domain # <<>> THEN entry.domain
                  ELSE hostname_of(entry.url)
        type   == IF entry.type # "" THEN entry.type ELSE "single"
        total  == IF html.ok THEN Len(parse_daily_clicks_page(html)) ELSE 0
    IN  Site(name, domain, type, total, entry.url, entry.url)

build_single_clicks_site(entry, html) ==
    LET name   == IF entry.name # <<>> THEN entry.name
                  ELSE IF entry.domain # <<>> THEN entry.domain
                  ELSE hostname_of(entry.url)
        domain == IF entry.domain # <<>> THEN entry.domain
                  ELSE hostname_of(entry.url)
        type   == IF entry.type # "" THEN entry.type ELSE "single"
        \* try: fetch, parse, sum;  except Exception: pass
        total  == IF html.ok
                  THEN sum_counts(parse_daily_clicks_page(html))
                  ELSE 0
    IN  Site(name, domain, type, total, entry.url, entry.url)

(***************************************************************************)
(* fetch_all_sites                                                         *)
(***************************************************************************)
\* the try body of one loop iteration raises
source_raises(src, html) == src.kind = "master" /\ ~html.ok

\* variant: a single-site source whose fetch or table fails is skipped
visit_source_skips_failed_clicks(src, html, acc) ==
    IF src.kind = "master"
    THEN (IF html.ok THEN acc \o parse_master_sites(html, src.url) ELSE acc)
    ELSE IF src.kind = "clicks" /\ html.ok /\ html.table
    THEN Append(acc, build_single_clicks_site(src, html))
    ELSE acc

\* all_sites after one loop iteration
visit_source(src, html, acc) ==
    IF src.kind = "master"
    THEN (IF html.ok THEN acc \o parse_master_sites(html, src.url) ELSE acc)
    ELSE IF src.kind = "clicks"
    THEN Append(acc, build_single_clicks_site(src, html))
    ELSE acc

\* variant: the exception of a failing source leaves the loop
after_try_reraises(raised) == IF raised THEN "raised" ELSE "collect"

\* except Exception: continue
after_try(raised) == "collect"

key_of(s) == <<hostname_of(s.domain), s.view_clicks_url>>

\* the slot of key in the insertion-ordered dict, 0 when absent
slot_of(dedup, key) ==
    IF \E k \in 1..Len(dedup) : key_of(dedup[k]) = key
    THEN CHOOSE k \in 1..Len(dedup) : key_of(dedup[k]) = key
    ELSE 0

\* variant: any later Site with a positive total replaces the kept one
prefer_later_any_positive(kept, s) == s.total_clicks > 0

\* prefer one with a non-zero total_clicks
prefer_later(kept, s) == kept.total_clicks = 0 /\ s.total_clicks > 0

RECURSIVE dedup_loop(_, _)
dedup_loop(rest, dedup) ==
    IF rest = <<>> THEN dedup
    ELSE LET s == Head(rest)
             k == slot_of(dedup, key_of(s))
         IN  dedup_loop(Tail(rest),
                        IF k = 0 THEN Append(dedup, s)
                        ELSE IF prefer_later(dedup[k], s)
                             THEN [dedup EXCEPT ![k] = s]
                             ELSE dedup)

\* list(dedup.values())
dedup_values(collected) == dedup_loop(collected, <<>>)

\* history of one visit: what happened to the fetch, and the Sites the
\* source yielded
Outcome(src, html) ==
    [tag   |-> IF src.kind \notin {"master", "clicks"} THEN "none"
               ELSE IF ~html.ok THEN "transport"
               ELSE IF ~html.table THEN "structural"
               ELSE "ok",
     yield |-> visit_source(src, html, <<>>)]

\* a catalog source: fetch_html, parse_master_sites, extend
VisitMaster ==
    /\ pc = "collect"
    /\ idx <= Len(sources)
    /\ sources[idx].kind = "master"
    /\ \E html \in CatalogResponses :
         /\ all_sites' = visit_source(sources[idx], html, all_sites)
         /\ outcome' = Append(outcome, Outcome(sources[idx], html))
         /\ pc' = after_try(source_raises(sources[idx], html))
    /\ fetches' = Append(fetches, sources[idx].url)
    /\ visited' = Append(visited, idx)
    /\ idx' = idx + 1
    /\ UNCHANGED <<sources, sites, needle, site, args, target_date, records,
                   summary, reply>>

\* a single-site source: build_single_clicks_site, append
VisitClicks ==
    /\ pc = "collect"
    /\ idx <= Len(sources)
    /\ sources[idx].kind = "clicks"
    /\ \E html \in {FailedFetch} \cup LogPagesOf(1) :
         /\ all_sites' = visit_source(sources[idx], html, all_sites)
         /\ outcome' = Append(outcome, Outcome(sources[idx], html))
         /\ pc' = after_try(source_raises(sources[idx], html))
    /\ fetches' = Append(fetches, sources[idx].url)
    /\ visited' = Append(visited, idx)
    /\ idx' = idx + 1
    /\ UNCHANGED <<sources, sites, needle, site, args, target_date, records,
                   summary, reply>>

\* a source of any other kind: neither branch runs, nothing is fetched
VisitOther ==
    /\ pc = "collect"
    /\ idx <= Len(sources)
    /\ sources[idx].kind \notin {"master", "clicks"}
    /\ outcome' = Append(outcome, Outcome(sources[idx], FailedFetch))
    /\ visited' = Append(visited, idx)
    /\ idx' = idx + 1
    /\ UNCHANGED <<pc, sources, all_sites, sites, needle, site, args,
                   target_date, fetches, records, summary, reply>>

\* the loop is over: deduplicate and return
Deduplicate ==
    /\ pc = "collect"
    /\ idx > Len(sources)
    /\ sites' = dedup_values(all_sites)
    /\ pc' = "returned"
    /\ UNCHANGED <<sources, idx, all_sites, visited, outcome, needle, site,
                   args, target_date, fetches, records, summary, reply>>

InitAgg ==
    /\ sources \in Configs
    /\ pc = "collect"
    /\ idx = 1
    /\ all_sites = <<>>
    /\ visited = <<>>
    /\ outcome = <<>>
    /\ fetches = <<>>
    /\ sites = Null
    /\ needle = <<>>
    /\ site = Null
    /\ args = <<>>
    /\ target_date = <<>>
    /\ records = <<>>
    /\ summary = Null
    /\ reply = NoReply

NextAgg == VisitMaster \/ VisitClicks \/ VisitOther \/ Deduplicate

SpecAgg == InitAgg /\ [][NextAgg]_vars

(***************************************************************************)
(* Properties of fetch_all_sites.                                          *)
(***************************************************************************)
Range(seq) == { seq[k] : k \in 1..Len(seq) }

KeysOf(seq) == { key_of(seq[k]) : k \in 1..Len(seq) }

FirstIdx(seq, key) ==
    CHOOSE k \in 1..Len(seq) :
        key_of(seq[k]) = key /\ \A j \in 1..(k - 1) : key_of(seq[j]) # key

\* the Site the deduplication rule keeps for a key of the collected sequence
Kept(seq, key) ==
    LET f     == FirstIdx(seq, key)
        Later == { j \in (f + 1)..Len(seq) :
                     key_of(seq[j]) = key /\ seq[j].total_clicks > 0 }
    IN  IF seq[f].total_clicks = 0 /\ Later # {}
        THEN seq[CHOOSE j \in Later : \A g \in Later : j <= g]
        ELSE seq[f]

\* C1: the returned list holds exactly one Site per distinct key of the
\* collected sequence, in the order of first appearance of the keys, and the
\* Site of a key is its first-seen Site, unless that one has total_clicks = 0
\* and a later Site of the key has total_clicks > 0: then it is the first
\* such later Site.
C1_DedupKeepsFirstSeen ==
    pc = "returned" =>
        /\ \A j, k \in 1..Len(sites) :
             j # k => key_of(sites[j]) # key_of(sites[k])
        /\ KeysOf(sites) = KeysOf(all_sites)
        /\ \A j, k \in 1..Len(sites) :
             j < k => FirstIdx(all_sites, key_of(sites[j]))
                        < FirstIdx(all_sites, key_of(sites[k]))
        /\ \A k \in 1..Len(sites) :
             sites[k] = Kept(all_sites, key_of(sites[k]))

\* a zero-total Site, then another key, then two positive Sites of the first
\* key with different totals: the first of the two takes the first slot
C1_Witness ==
    /\ pc = "returned"
    /\ Len(sites) >= 2
    /\ \E i, m, j, k \in 1..Len(all_sites) :
         /\ i < m /\ m < j /\ j < k
         /\ key_of(all_sites[i]) = key_of(all_sites[j])
         /\ key_of(all_sites[i]) = key_of(all_sites[k])
         /\ key_of(all_sites[m]) # key_of(all_sites[i])
         /\ all_sites[i].total_clicks = 0
         /\ all_sites[j].total_clicks > 0
         /\ all_sites[k].total_clicks > all_sites[j].total_clicks
         /\ sites[1] = all_sites[j]

\* C2: the sources are visited in configured order, the call never raises,
\* and when it returns every source has been visited and the Sites of every
\* source that did not fail are among the collected candidates.
C2_EverySourceVisited ==
    /\ pc # "raised"
    /\ visited = [k \in 1..Len(visited) |-> k]
    /\ pc = "returned" =>
          /\ Len(visited) = Len(sources)
          /\ \A i \in 1..Len(sources) :
               outcome[i].tag = "ok" => Range(outcome[i].yield) \subseteq Range(all_sites)

\* a catalog whose fetch fails is followed by a source that yields a Site
C2_Witness ==
    /\ pc = "returned"
    /\ \E i, j \in 1..Len(sources) :
         /\ i < j
         /\ sources[i].kind = "master"
         /\ outcome[i].tag = "transport"
         /\ outcome[j].tag = "ok"
         /\ outcome[j].yield # <<>>
         /\ Range(outcome[j].yield) \subseteq Range(sites)

Failed(i) == outcome[i].tag \in {"transport", "structural"}

\* C3 as stated: a source of either kind whose fetch or structural parse
\* fails leaves no Site of its own in the returned list.
C3_FailedSourceContributesNothing ==
    pc = "returned" =>
        \A i \in 1..Len(sources) :
            Failed(i) => \A k \in 1..Len(sites) : sites[k].source # sources[i].url

\* C3 as amended: a failing catalog source leaves no Site; a failing
\* single-site source still contributes its one Site, with total_clicks = 0,
\* as a candidate, and its key is in the returned list.
C3_FailedCatalogNothingFailedSingleZero ==
    pc = "returned" =>
        \A i \in 1..Len(sources) :
            Failed(i) =>
                /\ sources[i].kind = "master" =>
                     \A k \in 1..Len(sites) : sites[k].source # sources[i].url
                /\ sources[i].kind = "clicks" =>
                     \E s \in Range(all_sites) :
                         /\ s.source = sources[i].url
                         /\ s.total_clicks = 0
                         /\ key_of(s) \in KeysOf(sites)

\* one catalog fails, one single-site source fails, and another source
\* yields Sites
C3_Witness ==
    /\ pc = "returned"
    /\ \E i, j, k \in 1..Len(sources) :
         /\ sources[i].kind = "master" /\ Failed(i)
         /\ sources[j].kind = "clicks" /\ Failed(j)
         /\ outcome[k].tag = "ok" /\ outcome[k].yield # <<>>

Build ==
    /\ pc = "build"
    /\ \E html \in LogResponses :
         /\ site' = build_single_clicks_site(sources[1], html)
         /\ records' = IF html.ok THEN parse_daily_clicks_page(html) ELSE <<>>
         /\ outcome' = <<Outcome(sources[1], html)>>
    /\ fetches' = <<sources[1].url>>
    /\ pc' = "built"
    /\ UNCHANGED <<sources, idx, all_sites, visited, sites, needle, args,
                   target_date, summary, reply>>

InitBuild ==
    /\ \E entry \in ClicksEntries : sources = <<entry>>
    /\ pc = "build"
    /\ idx = 1
    /\ all_sites = <<>>
    /\ visited = <<>>
    /\ outcome = <<>>
    /\ fetches = <<>>
    /\ sites = Null
    /\ needle = <<>>
    /\ site = Null
    /\ args = <<>>
    /\ target_date = <<>>
    /\ records = <<>>
    /\ summary = Null
    /\ reply = NoReply

NextBuild == Build

SpecBuild == InitBuild /\ [][NextBuild]_vars

RECURSIVE SumOver(_, _)
\* the sum of f[k].count over the index set S
SumOver(f, S) ==
    IF S = {} THEN 0
    ELSE LET k == CHOOSE x \in S : TRUE
         IN  f[k].count + SumOver(f, S \ {k})

\* C10 as stated: total_clicks is the sum of the counts of the records parsed
\* from the page, 0 when the fetch or the parse fails, and name and domain
\* are each the normalized hostname of the URL when its own override is
\* absent.
C10_TotalAndDefaults ==
    pc = "built" =>
        /\ outcome[1].tag = "ok" =>
             site.total_clicks = SumOver(records, DOMAIN records)
        /\ Failed(1) => site.total_clicks = 0
        /\ sources[1].name = <<>> => site.name = hostname_of(sources[1].url)
        /\ sources[1].domain = <<>> => site.domain = hostname_of(sources[1].url)

\* C10 as amended: the name falls back to the domain override before it
\* falls back to the hostname.
C10_TotalAndDefaultsNameViaDomain ==
    pc = "built" =>
        /\ outcome[1].tag = "ok" =>
             site.total_clicks = SumOver(records, DOMAIN records)
        /\ Failed(1) => site.total_clicks = 0
        /\ sources[1].domain = <<>> => site.domain = hostname_of(sources[1].url)
        /\ (sources[1].name = <<>> /\ sources[1].domain = <<>>) =>
             site.name = hostname_of(sources[1].url)
        /\ (sources[1].name = <<>> /\ sources[1].domain # <<>>) =>
             site.name = sources[1].domain

\* an entry without overrides whose page yields two records of different
\* counts, and whose hostname differs from the text of its URL authority
C10_Witness ==
    /\ pc = "built"
    /\ sources[1].name = <<>> /\ sources[1].domain = <<>>
    /\ site.domain = Str_a
    /\ Len(records) = 2
    /\ records[1].count # records[2].count
    /\ site.total_clicks = records[1].count + records[2].count

(***************************************************************************)
(* pick_site                                                               *)
(***************************************************************************)
\* variant: the first hit, unsorted
first_hit(hits) == hits[1]

\* sorted(hits, key=lambda s: len(s["domain"]))[0]: the sort is stable
shortest_domain(hits) ==
    hits[CHOOSE k \in 1..Len(hits) :
            /\ \A j \in 1..Len(hits) : Len(hits[k].domain) <= Len(hits[j].domain)
            /\ \A j \in 1..(k - 1) : Len(hits[j].domain) > Len(hits[k].domain)]

pick_site(ss, q) ==
    IF q = <<>> THEN Null
    ELSE LET n      == lower(strip(q))
             n_host == hostname_of(n)
             IsExact(s)  == hostname_of(s.domain) = n_host
             IsDomain(s) == contains(lower(s.domain), n)
             IsName(s)   == contains(lower(s.name), n)
             exact       == SelectSeq(ss, IsExact)
             domain_hits == SelectSeq(ss, IsDomain)
             name_hits   == SelectSeq(ss, IsName)
         IN  IF exact # <<>> THEN shortest_domain(exact)
             ELSE IF domain_hits # <<>> THEN shortest_domain(domain_hits)
             ELSE IF name_hits # <<>> THEN name_hits[1]
             ELSE Null

PickSite(nm, dom, view) == Site(nm, dom, "main", 0, view, U_k)

PickPool ==
    { PickSite(Str_n, Str_wwwa, <<"/", "1">>),
      PickSite(Str_n, Str_a, <<"/", "2">>),
      PickSite(Str_t, <<"b", ".", "a", ".", "x">>, <<"/", "3">>),
      PickSite(<<"N", "b">>, <<"x", "B">>, <<"/", "4">>),
      PickSite(Str_t, <<"w", "w", "w", ".">>, <<"/", "5">>) }

\* Site lists without repetition, as deduplication leaves them
SiteLists ==
    { ss \in SeqsUpTo(PickPool, MaxSites) :
        \A j, k \in 1..Len(ss) : j # k => ss[j] # ss[k] }

Needles ==
    { <<>>, <<" ">>, <<"a">>, <<" ", "A", " ">>, U_a, <<"b">>, <<"n">>,
      <<"z">>, <<"w", "w", "w", ".">> }

Pick ==
    /\ pc = "pick"
    /\ site' = pick_site(sites, needle)
    /\ pc' = "picked"
    /\ UNCHANGED <<sources, idx, all_sites, visited, outcome, sites, needle,
                   args, target_date, fetches, records, summary, reply>>

InitPick ==
    /\ sites \in SiteLists
    /\ needle \in Needles
    /\ pc = "pick"
    /\ sources = SOURCES
    /\ idx = 1
    /\ all_sites = <<>>
    /\ visited = <<>>
    /\ outcome = <<>>
    /\ fetches = <<>>
    /\ site = Null
    /\ args = <<>>
    /\ target_date = <<>>
    /\ records = <<>>
    /\ summary = Null
    /\ reply = NoReply

NextPick == Pick

SpecPick == InitPick /\ [][NextPick]_vars

\* the normalized query, and the Sites each tier matches, stated on positions
NormQuery == lower(strip(needle))

ExactAt  == { k \in 1..Len(sites) :
                hostname_of(sites[k].domain) = hostname_of(NormQuery) }
DomainAt == { k \in 1..Len(sites) : contains(lower(sites[k].domain), NormQuery) }
NameAt   == { k \in 1..Len(sites) : contains(lower(sites[k].name), NormQuery) }

ShortestOf(K) ==
    /\ site # Null
    /\ \E k \in K : site = sites[k]
    /\ \A k \in K : Len(site.domain) <= Len(sites[k].domain)

TierDecides ==
    /\ ExactAt # {} => ShortestOf(ExactAt)
    /\ (ExactAt = {} /\ DomainAt # {}) => ShortestOf(DomainAt)
    /\ (ExactAt = {} /\ DomainAt = {} /\ NameAt # {}) =>
         site = sites[CHOOSE k \in NameAt : \A j \in NameAt : k <= j]

\* C4 as stated: for every query the first non-empty tier decides the result:
\* an exact-hostname match of shortest raw domain when there is one, else a
\* domain-substring match of shortest raw domain, else the first
\* name-substring match.
C4_FirstNonEmptyTierDecides == pc = "picked" => TierDecides

\* C4 as amended: the same, for every query that holds a character other
\* than white space.
C4_FirstNonEmptyTierDecidesNonBlank ==
    (pc = "picked" /\ NormQuery # <<>>) => TierDecides

\* the exact tier holds two Sites, the longer raw domain first, and another
\* Site matches the query by domain substring only
C4_Witness ==
    /\ pc = "picked"
    /\ NormQuery # <<>>
    /\ \E j, k \in ExactAt :
         j < k /\ Len(sites[j].domain) > Len(sites[k].domain) /\ site = sites[k]
    /\ DomainAt \ ExactAt # {}

\* C5: an empty or white-space-only query is not found, whatever the list.
C5_BlankQueryNotFound ==
    (pc = "picked" /\ strip(needle) = <<>>) => site = Null

(***************************************************************************)
(* summarize_for_date                                                      *)
(***************************************************************************)
EmptyMap == [b \in {} |-> 0]

\* variant: every record counts, whatever its date
date_matches_any(r, target) == TRUE

\* if r["date"] == target_date
date_matches(r, target) == r.date = target

RECURSIVE summarize_loop(_, _, _)
summarize_loop(recs, target, acc) ==
    IF recs = <<>> THEN acc
    ELSE LET r == Head(recs)
             m == acc.by_button
             b == r.button_type
         IN  summarize_loop(
                Tail(recs), target,
                IF date_matches(r, target)
                THEN [by_button |->
                        [x \in DOMAIN m \cup {b} |->
                           IF x = b
                           THEN (IF b \in DOMAIN m THEN m[b] ELSE 0) + r.count
                           ELSE m[x]],
                      total |-> acc.total + r.count]
                ELSE acc)

summarize_for_date(recs, target) ==
    summarize_loop(recs, target, [by_button |-> EmptyMap, total |-> 0])

D_0101 == <<"2", "0", "2", "5", "-", "0", "1", "-", "0", "1">>

Summarize ==
    /\ pc = "summarize"
    /\ summary' = summarize_for_date(records, target_date)
    /\ pc' = "summarized"
    /\ UNCHANGED <<sources, idx, all_sites, visited, outcome, sites, needle,
                   site, args, target_date, fetches, records, reply>>

\* the records are those parse_daily_clicks_page returns for some page
InitSum ==
    /\ \E html \in LogPagesOf(MaxSumRows) :
         records = parse_daily_clicks_page(html)
    /\ target_date \in {D_0913, D_0914, D_913, D_0101}
    /\ pc = "summarize"
    /\ sources = SOURCES
    /\ idx = 1
    /\ all_sites = <<>>
    /\ visited = <<>>
    /\ outcome = <<>>
    /\ fetches = <<>>
    /\ sites = Null
    /\ needle = <<>>
    /\ site = Null
    /\ args = <<>>
    /\ summary = Null
    /\ reply = NoReply

NextSum == Summarize

SpecSum == InitSum /\ [][NextSum]_vars

RECURSIVE SumValues(_, _)
\* the sum of the values m[b] over the keys b in S
SumValues(m, S) ==
    IF S = {} THEN 0
    ELSE LET b == CHOOSE x \in S : TRUE
         IN  m[b] + SumValues(m, S \ {b})

MatchingAt == { k \in 1..Len(records) : records[k].date = target_date }

\* C6: the mapping's keys are exactly the labels of the records of the target
\* date, each mapped to the sum of their counts, and the total is the sum of
\* the counts of the same records, hence the sum of the mapping's values; with
\* no such record the mapping is empty and the total is 0.
C6_SummaryIsFilteredSum ==
    pc = "summarized" =>
        /\ DOMAIN summary.by_button =
             { records[k].button_type : k \in MatchingAt }
        /\ \A b \in DOMAIN summary.by_button :
             summary.by_button[b] =
               SumOver(records, { k \in MatchingAt : records[k].button_type = b })
        /\ summary.total = SumOver(records, MatchingAt)
        /\ summary.total = SumValues(summary.by_button, DOMAIN summary.by_button)
        /\ MatchingAt = {} => (summary.by_button = EmptyMap /\ summary.total = 0)

\* two records of one label and the target date, and one of another date
C6_Witness ==
    /\ pc = "summarized"
    /\ \E i, j, k \in 1..Len(records) :
         /\ i # j
         /\ records[i].date = target_date /\ records[j].date = target_date
         /\ records[i].button_type = records[j].button_type
         /\ records[k].date # target_date /\ records[k].count > 0
         /\ summary.by_button[records[i].button_type]
              = records[i].count + records[j].count
         /\ summary.total = records[i].count + records[j].count

(***************************************************************************)
(* klik: the /klik <site> [date] handler.                                  *)
(***************************************************************************)
RECURSIVE collect(_, _, _)
\* the loop of fetch_all_sites over all sources, given what each fetch returns
collect(srcs, htmls, acc) ==
    IF srcs = <<>> THEN acc
    ELSE collect(Tail(srcs), Tail(htmls),
                 visit_source(Head(srcs), Head(htmls), acc))

fetch_all_sites(srcs, htmls) == dedup_values(collect(srcs, htmls, <<>>))

\* the tokens of the command: Telegram splits the text on white space, so a
\* token is never empty and holds no white space
KlikQueries == {Str_a, Str_t, <<"z">>}
KlikDates   == {D_0913, D_913, D_0230, D_bad}
KlikArgs ==
    {<<>>} \cup { <<q>> : q \in KlikQueries }
           \cup { <<q, d>> : q \in KlikQueries, d \in KlikDates }

\* dt.datetime.now(ZoneInfo(DEFAULT_TZ)).date().strftime("%Y-%m-%d")
Today == {D_0913, D_0914}

\* variant: the return is missing and the handler carries on
falls_through == "aggregate"

\* the return that follows the reply to a rejected command
return_after_reply == "done"

\* the argument checks, before anything is fetched
KlikValidate ==
    /\ pc = "klik"
    /\ IF args = <<>>
       THEN /\ reply' = "usage"
            /\ pc' = return_after_reply
            /\ UNCHANGED <<needle, target_date>>
       ELSE /\ needle' = args[1]
            /\ IF Len(args) >= 2
               THEN IF strptime_ok(args[2])
                    THEN /\ target_date' = args[2]
                         /\ pc' = "aggregate"
                         /\ reply' = reply
                    ELSE /\ reply' = "bad_date"
                         /\ pc' = return_after_reply
                         /\ UNCHANGED target_date
               ELSE /\ target_date' \in Today
                    /\ pc' = "aggregate"
                    /\ reply' = reply
    /\ UNCHANGED <<sources, idx, all_sites, visited, outcome, sites, site,
                   args, fetches, records, summary>>

\* sites = fetch_all_sites()
KlikAggregate ==
    /\ pc = "aggregate"
    /\ \E h1, h2 \in {FailedFetch} \cup CatalogPagesOf(1) :
         \E h3 \in {FailedFetch} \cup LogPagesOf(1) :
            sites' = fetch_all_sites(sources, <<h1, h2, h3>>)
    /\ fetches' = fetches \o [k \in 1..Len(sources) |-> sources[k].url]
    /\ pc' = "resolve"
    /\ UNCHANGED <<sources, idx, all_sites, visited, outcome, needle, site,
                   args, target_date, records, summary, reply>>

\* site = pick_site(sites, site_arg), and the not-found reply
KlikResolve ==
    /\ pc = "resolve"
    /\ site' = pick_site(sites, needle)
    /\ IF site' = Null
       THEN reply' = "not_found" /\ pc' = "done"
       ELSE reply' = reply /\ pc' = "fetch_log"
    /\ UNCHANGED <<sources, idx, all_sites, visited, outcome, sites, needle,
                   args, target_date, fetches, records, summary>>

FetchTag(html) ==
    IF ~html.ok THEN "transport"
    ELSE IF ~html.table THEN "structural"
    ELSE "ok"

\* fetch the Site's log page, parse it, summarize it and reply; an exception
\* reaches the handler's except clause, which replies with the error
KlikFetchLog ==
    /\ pc = "fetch_log"
    /\ \E html \in LogResponses :
         /\ outcome' = <<[tag |-> FetchTag(html)]>>
         /\ IF ~html.ok
            THEN /\ reply' = "error"
                 /\ UNCHANGED <<records, summary>>
            ELSE /\ records' = parse_daily_clicks_page(html)
                 /\ summary' = summarize_for_date(records', target_date)
                 /\ reply' = IF summary'.by_button = EmptyMap
                             THEN "empty_summary"
                             ELSE "summary"
    /\ fetches' = Append(fetches, site.view_clicks_url)
    /\ pc' = "done"
    /\ UNCHANGED <<sources, idx, all_sites, visited, sites, needle, site,
                   args, target_date>>

InitKlik ==
    /\ args \in KlikArgs
    /\ pc = "klik"
    /\ sources = SOURCES
    /\ idx = 1
    /\ all_sites = <<>>
    /\ visited = <<>>
    /\ outcome = <<>>
    /\ fetches = <<>>
    /\ sites = Null
    /\ needle = <<>>
    /\ site = Null
    /\ target_date = <<>>
    /\ records = <<>>
    /\ summary = Null
    /\ reply = NoReply

NextKlik == KlikValidate \/ KlikAggregate \/ KlikResolve \/ KlikFetchLog

SpecKlik == InitKlik /\ [][NextKlik]_vars

\* C7: once a Site is resolved, a failed fetch of its log page, or a page
\* without the expected table, ends the query with the error reply.
C7_LogFailureIsError ==
    (pc = "done" /\ site # Null /\ outcome # <<>>
       /\ outcome[1].tag \in {"transport", "structural"})
    => reply = "error"

Rejected ==
    args = <<>> \/ (Len(args) >= 2 /\ ~strptime_ok(args[2]))

====
